---- MODULE Spec2Model ----
(***************************************************************************)
(* A model of metricsreport.MetricsReport (src/metricsreport/              *)
(* metricsreport.py): the constructor with its task-type inference and     *)
(* metric computation, the print/plot calls, and save_report with the      *)
(* part of the file system it reads and writes.                            *)
(*                                                                         *)
(* Scores (y_pred) and thresholds are decimal numbers with one digit after *)
(* the point, held as integers in tenths: 5 stands for 0.5.                *)
(***************************************************************************)
EXTENDS Integers, Sequences, FiniteSets, TLC

VARIABLES
    y_true,         \* self.y_true
    y_pred,         \* self.y_pred (tenths)
    threshold,      \* self.threshold (tenths)
    phase,          \* "new": __init__ not yet run, "ready": constructed, "failed": __init__ raised
    task_type,      \* self.task_type ("none" before line 63 has run)
    y_pred_binary,  \* self.y_pred_binary (classification only)
    metrics,        \* self.metrics
    target_info,    \* self.target_info
    fs,             \* the directory tree the process works in
    cwdGone,        \* TRUE once the process's working directory has been unlinked
    call,           \* the last finished method call, its executed steps and its outcome
    prev,           \* the call before it, in brief
    env             \* the caller and the platform of this run: the folders and names
                    \* passed to save_report, and whether a library or system call
                    \* may fail for a reason outside the model (faults)

vars == <<y_true, y_pred, threshold, phase, task_type, y_pred_binary, metrics,
          target_info, fs, cwdGone, call, prev, env>>

\* ------------------------------------------------------------------ bounds

\* longest y_true / y_pred drawn by InitMetrics
MaxLen == 3

\* values y_true is drawn from
Labels == {0, 1, 2}

\* values y_pred is drawn from (0.5 and 0.8) and thresholds (0.5 and 0.8)
Scores == {5, 8}
Thresholds == {5, 8}

\* the vectors of tests/test_metricsreport.py::binary_classification_data
TestYTrue == <<0, 1, 1, 0, 1, 0, 0, 1, 0, 1, 0, 1, 0>>
TestYPred == <<2, 8, 9, 1, 6, 3, 4, 7, 2, 9, 8, 4, 9>>
TestThreshold == 5

\* ------------------------------------------------------------------ numpy / sklearn helpers

\* np.unique(a): the distinct values of a
unique(a) == {a[i] : i \in DOMAIN a}

\* the number of samples with (true, predicted) = (t, p)
CountPairs(yt, yp, t, p) == Cardinality({i \in DOMAIN yt : yt[i] = t /\ yp[i] = p})

\* the elements of a finite set of integers in increasing order
RECURSIVE SortedSeq(_)
SortedSeq(S) ==
    IF S = {} THEN << >>
    ELSE LET m == CHOOSE x \in S : \A y \in S : x <= y
         IN  <<m>> \o SortedSeq(S \ {m})

\* a scalar returned by a library function, kept as the term that denotes it
Lib(fn, a, b) == <<fn, a, b>>

\* round(x, ndigits)
round(x, ndigits) == <<"round", x, ndigits>>

\* a Python float and a Python/numpy integer, as isinstance(value, float) tells them apart
PyFloat(x) == [t |-> "float", v |-> x]
PyInt(n) == [t |-> "int", v |-> n]

\* str.endswith
endswith(s, suffix) ==
    /\ Len(s) >= Len(suffix)
    /\ SubSeq(s, Len(s) - Len(suffix) + 1, Len(s)) = suffix

\* ------------------------------------------------------------------ __init__

\* a fault: two distinct values already make a regression
determine_task_type_two(yt) ==
    IF Cardinality(unique(yt)) >= 2 THEN "regression" ELSE "classification"

determine_task_type(yt) ==
    IF Cardinality(unique(yt)) > 2 THEN "regression" ELSE "classification"

\* a fault: a score equal to the threshold counts as positive
Binarize_ge(yp, thr) == [i \in DOMAIN yp |-> IF yp[i] >= thr THEN 1 ELSE 0]

\* (self.y_pred > self.threshold).astype(int)
Binarize(yp, thr) == [i \in DOMAIN yp |-> IF yp[i] > thr THEN 1 ELSE 0]

\* np.maximum(self.y_pred, 0)
NonNegative(yp) == [i \in DOMAIN yp |-> IF yp[i] > 0 THEN yp[i] ELSE 0]

\* confusion_matrix(y_true, y_pred).ravel(): one row and one column per label of
\* the union of the labels of both arguments, in increasing order, row by row
confusion_matrix_ravel(yt, yp) ==
    LET labels == SortedSeq(unique(yt) \cup unique(yp))
        n == Len(labels)
    IN  [k \in 1..(n * n) |->
            CountPairs(yt, yp, labels[((k - 1) \div n) + 1], labels[((k - 1) % n) + 1])]

\* the error _generate_classification_metrics raises, "none" when it returns:
\*  - line 105 unpacks the ravelled matrix into four names, so the union of the
\*    labels of y_true and y_pred_binary must hold exactly two labels;
\*  - roc_auc_score and log_loss (lines 108-109) reject a y_true of one class;
\*  - average_precision_score (line 110) takes 1 as the positive label and rejects
\*    a binary y_true that does not hold it.
\* The other calls accept any two labels.
ClassificationError(yt, yp, ypb) ==
    IF Len(confusion_matrix_ravel(yt, ypb)) # 4
        THEN "ValueError: unpack"
    ELSE IF Cardinality(unique(yt)) < 2
        THEN "ValueError: one class"
    ELSE IF 1 \notin unique(yt)
        THEN "ValueError: pos_label"
    ELSE "none"

\* a fault: TP read from the cell of FN
generate_classification_metrics_cell(yt, yp, ypb) ==
    LET cm == confusion_matrix_ravel(yt, ypb)
        tn == cm[1]
        fp == cm[2]
        fn == cm[3]
        tp == cm[3]
    IN  ("AUC" :> PyFloat(round(Lib("roc_auc_score", yt, yp), 4)))
     @@ ("Log Loss" :> PyFloat(round(Lib("log_loss", yt, yp), 4)))
     @@ ("Average_Precision" :> PyFloat(round(Lib("average_precision_score", yt, yp), 4)))
     @@ ("Accuracy" :> PyFloat(round(Lib("accuracy_score", yt, ypb), 4)))
     @@ ("Precision" :> PyFloat(round(Lib("precision_score", yt, ypb), 4)))
     @@ ("Recall" :> PyFloat(round(Lib("recall_score", yt, ypb), 4)))
     @@ ("F1 Score" :> PyFloat(round(Lib("f1_score", yt, ypb), 4)))
     @@ ("MCC" :> PyFloat(round(Lib("matthews_corrcoef", yt, ypb), 4)))
     @@ ("TN" :> PyInt(tn))
     @@ ("FP" :> PyInt(fp))
     @@ ("FN" :> PyInt(fn))
     @@ ("TP" :> PyInt(tp))

generate_classification_metrics(yt, yp, ypb) ==
    LET cm == confusion_matrix_ravel(yt, ypb)
        tn == cm[1]
        fp == cm[2]
        fn == cm[3]
        tp == cm[4]
    IN  ("AUC" :> PyFloat(round(Lib("roc_auc_score", yt, yp), 4)))
     @@ ("Log Loss" :> PyFloat(round(Lib("log_loss", yt, yp), 4)))
     @@ ("Average_Precision" :> PyFloat(round(Lib("average_precision_score", yt, yp), 4)))
     @@ ("Accuracy" :> PyFloat(round(Lib("accuracy_score", yt, ypb), 4)))
     @@ ("Precision" :> PyFloat(round(Lib("precision_score", yt, ypb), 4)))
     @@ ("Recall" :> PyFloat(round(Lib("recall_score", yt, ypb), 4)))
     @@ ("F1 Score" :> PyFloat(round(Lib("f1_score", yt, ypb), 4)))
     @@ ("MCC" :> PyFloat(round(Lib("matthews_corrcoef", yt, ypb), 4)))
     @@ ("TN" :> PyInt(tn))
     @@ ("FP" :> PyInt(fp))
     @@ ("FN" :> PyInt(fn))
     @@ ("TP" :> PyInt(tp))

\* the error _generate_regression_metrics raises, "none" when it returns:
\* mean_squared_log_error (line 281) rejects a negative target
RegressionError(yt, yp) ==
    IF \E i \in DOMAIN yt : yt[i] < 0
        THEN "ValueError: negative target"         \* mean_squared_log_error
    ELSE "none"

\* a fault: one key misspelt
generate_regression_metrics_key(yt, yp) ==
       ("Mean Squared Error" :> PyFloat(round(Lib("mean_squared_error", yt, yp), 4)))
    @@ ("Mean Squared Log Error" :>
            PyFloat(round(Lib("mean_squared_log_error", yt, NonNegative(yp)), 4)))
    @@ ("Mean Absolute Error" :> PyFloat(round(Lib("mean_absolute_error", yt, yp), 4)))
    @@ ("R2" :> PyFloat(round(Lib("r2_score", yt, yp), 4)))
    @@ ("Explained Variance Score" :>
            PyFloat(round(Lib("explained_variance_score", yt, yp), 4)))
    @@ ("Max Error" :> PyFloat(round(Lib("max_error", yt, yp), 4)))
    @@ ("Mean Absolute Percentage Error" :>
            PyFloat(round(Lib("mean_abs_pct_error", yt, yp), 1)))

generate_regression_metrics(yt, yp) ==
       ("Mean Squared Error" :> PyFloat(round(Lib("mean_squared_error", yt, yp), 4)))
    @@ ("Mean Squared Log Error" :>
            PyFloat(round(Lib("mean_squared_log_error", yt, NonNegative(yp)), 4)))
    @@ ("Mean Absolute Error" :> PyFloat(round(Lib("mean_absolute_error", yt, yp), 4)))
    @@ ("R^2" :> PyFloat(round(Lib("r2_score", yt, yp), 4)))
    @@ ("Explained Variance Score" :> PyFloat(round(Lib("explained_variance_score", yt, yp), 4)))
    @@ ("Max Error" :> PyFloat(round(Lib("max_error", yt, yp), 4)))
    @@ ("Mean Absolute Percentage Error" :>
            PyFloat(round(Lib("mean_abs_pct_error", yt, yp), 1)))

\* the record of a finished call
Call(op, folder, name, trace, raised, result) ==
    [op |-> op, folder |-> folder, name |-> name, trace |-> trace, raised |-> raised,
     result |-> result]

\* what is kept of the call before the last one: whether it was a save_report,
\* and then its arguments and whether it returned
Brief(c) ==
    IF c.op = "save_report"
    THEN [op |-> c.op, folder |-> c.folder, name |-> c.name, ok |-> c.raised = "none"]
    ELSE [op |-> "other", folder |-> "", name |-> "", ok |-> TRUE]

\* no document: the value of a call that returns None
NoDoc == [fmt |-> "none"]

NoCall == Call("none", "", "", << >>, "none", NoDoc)

\* MetricsReport(y_true, y_pred, threshold)
Construct ==
    /\ phase = "new"
    /\ task_type' = determine_task_type(y_true)
    /\ LET ypb == Binarize(y_pred, threshold)
           err == IF task_type' = "classification"
                  THEN ClassificationError(y_true, y_pred, ypb)
                  ELSE RegressionError(y_true, y_pred)
       IN  /\ y_pred_binary' = IF task_type' = "classification" THEN ypb ELSE << >>
           /\ metrics' = IF err # "none" THEN << >>
                         ELSE IF task_type' = "classification"
                         THEN generate_classification_metrics(y_true, y_pred, ypb)
                         ELSE generate_regression_metrics(y_true, y_pred)
           /\ phase' = IF err = "none" THEN "ready" ELSE "failed"
           /\ call' = Call("__init__", "", "", << >>, err, NoDoc)
    /\ prev' = Brief(call)
    /\ UNCHANGED <<y_true, y_pred, threshold, target_info, fs, cwdGone, env>>

\* ------------------------------------------------------------------ the file system

\* the absolute path of the directory the process starts in
CwdAbs == "/cwd"

\* folder arguments: the current directory, a sub-directory of it, and the
\* current directory written as an absolute path
Folders == {".", "out", CwdAbs}

\* report names
Names == {"a", "b"}

NoPlots == [exists |-> FALSE, files |-> {}]
NoDir == [exists |-> FALSE, files |-> << >>, plots |-> NoPlots]
EmptyDir == [exists |-> TRUE, files |-> << >>, plots |-> NoPlots]

\* a file the program did not write
Other == [fmt |-> "other"]

\* the directory a folder argument names: "out" is a directory inside the
\* current directory
Resolve(folder) == IF folder \in {".", CwdAbs} THEN "cwd" ELSE "out"

\* a relative path resolves only while the working directory is linked
Reach(st, folder) == folder = CwdAbs \/ ~st.gone

\* os.path.exists(folder), os.path.exists(folder + '/plots')
Exists(st, folder) == Reach(st, folder) /\ st.fs[Resolve(folder)].exists
PlotsExists(st, folder) == Exists(st, folder) /\ st.fs[Resolve(folder)].plots.exists

Raise(st, err) == [st EXCEPT !.raised = err]

\* shutil.rmtree(folder): the directory goes with everything below it; the
\* working directory removed through its absolute path stays the working
\* directory of the process, unlinked
rmtree(st, folder) ==
    IF Resolve(folder) = "cwd"
    THEN [st EXCEPT !.fs = [cwd |-> NoDir, out |-> NoDir], !.gone = TRUE]
    ELSE [st EXCEPT !.fs.out = NoDir]

\* os.makedirs(folder)
makedirs(st, folder) ==
    IF ~Reach(st, folder) THEN Raise(st, "FileNotFoundError")
    ELSE IF st.fs[Resolve(folder)].exists THEN Raise(st, "FileExistsError")
    ELSE [st EXCEPT !.fs[Resolve(folder)] = EmptyDir]

\* shutil.rmtree(folder + '/plots')
rmtree_plots(st, folder) == [st EXCEPT !.fs[Resolve(folder)].plots = NoPlots]

\* os.makedirs(folder + '/plots'), which makes the missing parents too
makedirs_plots(st, folder) ==
    LET d == Resolve(folder)
    IN  IF ~Reach(st, folder) THEN Raise(st, "FileNotFoundError")
        ELSE IF PlotsExists(st, folder) THEN Raise(st, "FileExistsError")
        ELSE IF st.fs[d].exists
        THEN [st EXCEPT !.fs[d].plots = [exists |-> TRUE, files |-> {}]]
        ELSE [st EXCEPT !.fs[d] =
                [EmptyDir EXCEPT !.plots = [exists |-> TRUE, files |-> {}]]]

\* a fault: the PNG written into the folder itself, f'{folder}/{plot_name}.png'
savefig_flat(st, folder, plot_name) ==
    IF ~Exists(st, folder) THEN Raise(st, "FileNotFoundError")
    ELSE [st EXCEPT !.fs[Resolve(folder)].files =
             [f \in (DOMAIN @) \cup {plot_name \o ".png"} |->
                 IF f = plot_name \o ".png" THEN Other ELSE @[f]]]

\* plt.savefig(f'{folder}/plots/{plot_name}.png')
savefig(st, folder, plot_name) ==
    IF ~PlotsExists(st, folder) THEN Raise(st, "FileNotFoundError")
    ELSE [st EXCEPT !.fs[Resolve(folder)].plots.files = @ \cup {plot_name \o ".png"}]

\* with open(f'{folder}/{name}{ext}', 'w') as f: f.write(doc)
write_file(st, folder, file, doc) ==
    IF ~Exists(st, folder) THEN Raise(st, "FileNotFoundError")
    ELSE [st EXCEPT !.fs[Resolve(folder)].files =
             [f \in (DOMAIN @) \cup {file} |-> IF f = file THEN doc ELSE @[f]]]

\* ------------------------------------------------------------------ plots and the report

ClassificationPlots ==
    <<"class_distribution", "confusion_matrix", "precision_recall_curve", "roc_curve",
      "ks_statistic", "calibration_curve", "cumulative_gain", "lift_curve">>

RegressionPlots == <<"residual_plot", "predicted_vs_actual">>

PlotsOf(task) == IF task = "classification" THEN ClassificationPlots ELSE RegressionPlots

Step(k, a) == [k |-> k, a |-> a]

\* the loop of _classification_plots / _regression_plots over the plots from the i-th on
RECURSIVE PlotLoop(_, _, _)
PlotLoop(plots, i, save) ==
    IF i > Len(plots) THEN << >>
    ELSE <<Step("plot", plots[i]),
           Step(IF save THEN "savefig" ELSE "show", plots[i]),
           Step("close", plots[i])>> \o PlotLoop(plots, i + 1, save)

\* _classification_plots(save, folder)
classification_plots(save) ==
    (IF save THEN <<Step("rmtree_plots", ""), Step("makedirs_plots", "")>> ELSE << >>)
        \o PlotLoop(ClassificationPlots, 1, save)

\* _regression_plots(save, folder)
regression_plots(save) ==
    (IF save THEN <<Step("rmtree_plots", ""), Step("makedirs_plots", "")>> ELSE << >>)
        \o PlotLoop(RegressionPlots, 1, save)

RECURSIVE Sum(_)
Sum(a) == IF a = << >> THEN 0 ELSE Head(a) + Sum(Tail(a))

Min(a) == CHOOSE x \in unique(a) : \A y \in unique(a) : x <= y
Max(a) == CHOOSE x \in unique(a) : \A y \in unique(a) : x >= y

\* the mapping __target_info assigns to self.target_info
compute_target_info ==
    IF task_type = "classification"
    THEN   ("Count of samples" :> PyInt(Len(y_true)))
        @@ ("Count True class" :> PyInt(Sum(y_true)))
        @@ ("Count False class" :> PyInt(Len(y_true) - Sum(y_true)))
        @@ ("Class balance %" :> PyFloat(round(<<"pct", Sum(y_true), Len(y_true)>>, 1)))
    ELSE   ("Count of samples" :> PyInt(Len(y_true)))
        @@ ("Mean of target" :> PyFloat(round(<<"mean", y_true>>, 2)))
        @@ ("Std of target" :> PyFloat(round(<<"std", y_true>>, 2)))
        @@ ("Min of target" :> PyInt(Min(y_true)))
        @@ ("Max of target" :> PyInt(Max(y_true)))

\* __generate_html_rows(data): one row per item, a float printed as it is and
\* anything else through int()
generate_html_rows(data) ==
    [name \in DOMAIN data |->
        IF data[name].t = "float" THEN <<"str", data[name].v>> ELSE <<"int", data[name].v>>]

\* a fault: every file of the directory listed, not the *.png alone
add_plot_images_to_report_all(st, folder) ==
    {<<"img", "./plots/" \o file>> : file \in st.fs[Resolve(folder)].plots.files}

\* __add_plot_images_to_report(folder): one <img> per *.png that os.listdir finds
add_plot_images_to_report(st, folder) ==
    {<<"img", "./plots/" \o file>> :
        file \in {f \in st.fs[Resolve(folder)].plots.files : endswith(f, ".png")}}

\* _generate_html_report(folder, add_css): the document, or the error of os.listdir
generate_html_report(st, folder, add_css) ==
    IF ~PlotsExists(st, folder) THEN Raise(st, "FileNotFoundError")
    ELSE [st EXCEPT !.doc =
            [fmt |-> "html",
             css |-> add_css,
             type |-> task_type,
             info |-> generate_html_rows(st.ti),
             threshold |-> threshold,
             metrics |-> generate_html_rows(metrics),
             images |-> add_plot_images_to_report(st, folder)]]

\* markdownify(html, heading_style="ATX"): the same tables, each <img> as ![](src)
markdownify(html) ==
    [html EXCEPT !.fmt = "md", !.images = {<<"![]", i[2]>> : i \in @}]

\* a fault: the HTML report rendered and written before the plots are made
save_report_render_first(task) ==
    <<Step("rmtree_folder", ""), Step("makedirs_folder", ""), Step("target_info", ""),
      Step("render", "css"), Step("write", ".html")>>
        \o (IF task = "classification" THEN classification_plots(TRUE)
            ELSE regression_plots(TRUE))
        \o <<Step("render", "plain"), Step("markdownify", ""), Step("write", ".md"),
             Step("print", "saved")>>

\* save_report(folder, name), as the calls it makes in order
save_report(task) ==
    <<Step("rmtree_folder", ""), Step("makedirs_folder", ""), Step("target_info", "")>>
        \o (IF task = "classification" THEN classification_plots(TRUE)
            ELSE regression_plots(TRUE))
        \o <<Step("render", "css"), Step("write", ".html"),
             Step("render", "plain"), Step("markdownify", ""), Step("write", ".md"),
             Step("print", "saved")>>

\* print_metrics()
print_metrics == <<Step("DataFrame", ""), Step("print", "metrics")>>

\* plot_metrics()
plot_metrics(task) ==
    IF task = "classification" THEN classification_plots(FALSE) ELSE regression_plots(FALSE)

\* print_report()
print_report(task) ==
    IF task = "classification"
    THEN <<Step("print", "threshold"), Step("classification_report", ""),
           Step("print", "classification report")>>
            \o print_metrics
            \o <<Step("lift", ""), Step("print", "lift")>>
            \o plot_metrics(task)
    ELSE print_metrics \o plot_metrics(task)

\* whether the step makes its call in this state (a guarded call may be skipped)
Calls(s, folder, st) ==
    CASE s.k = "rmtree_folder" -> folder # "." /\ Exists(st, folder)
      [] s.k = "makedirs_folder" -> folder # "."
      [] s.k = "rmtree_plots" -> PlotsExists(st, folder)
      [] OTHER -> TRUE

\* a fault: the folder is made when it is missing and never removed
Exec_keep(s, folder, name, st) ==
    CASE s.k = "rmtree_folder" -> st
      [] s.k = "makedirs_folder" -> IF Exists(st, folder) THEN st ELSE makedirs(st, folder)
      [] s.k = "target_info" -> [st EXCEPT !.ti = compute_target_info]
      [] s.k = "rmtree_plots" -> rmtree_plots(st, folder)
      [] s.k = "makedirs_plots" -> makedirs_plots(st, folder)
      [] s.k = "savefig" -> savefig(st, folder, s.a)
      [] s.k = "render" -> generate_html_report(st, folder, s.a = "css")
      [] s.k = "markdownify" -> [st EXCEPT !.doc = markdownify(@)]
      [] s.k = "write" -> write_file(st, folder, name \o s.a, st.doc)
      [] OTHER -> st

\* the effect of one step
Exec(s, folder, name, st) ==
    CASE s.k = "rmtree_folder" -> rmtree(st, folder)
      [] s.k = "makedirs_folder" -> makedirs(st, folder)
      [] s.k = "target_info" -> [st EXCEPT !.ti = compute_target_info]
      [] s.k = "rmtree_plots" -> rmtree_plots(st, folder)
      [] s.k = "makedirs_plots" -> makedirs_plots(st, folder)
      [] s.k = "savefig" -> savefig(st, folder, s.a)
      [] s.k = "render" -> generate_html_report(st, folder, s.a = "css")
      [] s.k = "markdownify" -> [st EXCEPT !.doc = markdownify(@)]
      [] s.k = "write" -> write_file(st, folder, name \o s.a, st.doc)
      [] OTHER -> st

\* the error a step raises when the call it makes fails
ErrorOf(s) == "Error in " \o s.k \o " " \o s.a

\* a fault: an error is noted and the remaining steps run all the same
RECURSIVE Run_on(_, _, _, _, _, _)
Run_on(steps, i, failAt, folder, name, st) ==
    IF i > Len(steps) THEN st
    ELSE IF ~Calls(steps[i], folder, st) THEN Run_on(steps, i + 1, failAt, folder, name, st)
    ELSE LET st1 == [st EXCEPT !.trace = Append(@, steps[i])]
             st2 == IF i = failAt THEN Raise(st1, ErrorOf(steps[i]))
                    ELSE Exec(steps[i], folder, name, [st1 EXCEPT !.raised = "none"])
             st3 == IF st1.raised # "none" THEN Raise(st2, st1.raised) ELSE st2
         IN  Run_on(steps, i + 1, failAt, folder, name, st3)

\* the steps from the i-th on, in order; the step failAt raises; an error ends the
\* call where it is raised (there is no try/except in the class)
RECURSIVE Run(_, _, _, _, _, _)
Run(steps, i, failAt, folder, name, st) ==
    IF i > Len(steps) THEN st
    ELSE IF ~Calls(steps[i], folder, st) THEN Run(steps, i + 1, failAt, folder, name, st)
    ELSE LET st1 == [st EXCEPT !.trace = Append(@, steps[i])]
             st2 == IF i = failAt THEN Raise(st1, ErrorOf(steps[i]))
                    ELSE Exec(steps[i], folder, name, st1)
         IN  IF st2.raised # "none" THEN st2
             ELSE Run(steps, i + 1, failAt, folder, name, st2)

\* the local state a call starts in
Start == [fs |-> fs, gone |-> cwdGone, ti |-> target_info, doc |-> NoDoc,
          trace |-> << >>, raised |-> "none"]

\* a fault: __target_info stores its mapping in self.metrics
Finish_metrics(op, folder, name, st, result) ==
    /\ fs' = st.fs
    /\ cwdGone' = st.gone
    /\ target_info' = target_info
    /\ metrics' = IF st.ti # target_info THEN st.ti ELSE metrics
    /\ call' = Call(op, folder, name, st.trace, st.raised, result)
    /\ prev' = Brief(call)
    /\ UNCHANGED <<y_true, y_pred, threshold, phase, task_type, y_pred_binary, env>>

\* a fault: a call that raises leaves self.target_info as it found it
Finish_rollback(op, folder, name, st, result) ==
    /\ fs' = st.fs
    /\ cwdGone' = st.gone
    /\ target_info' = IF st.raised = "none" THEN st.ti ELSE target_info
    /\ call' = Call(op, folder, name, st.trace, st.raised, result)
    /\ prev' = Brief(call)
    /\ UNCHANGED <<y_true, y_pred, threshold, phase, task_type, y_pred_binary, metrics, env>>

\* what a finished call leaves behind
Finish(op, folder, name, st, result) ==
    /\ fs' = st.fs
    /\ cwdGone' = st.gone
    /\ target_info' = st.ti
    /\ call' = Call(op, folder, name, st.trace, st.raised, result)
    /\ prev' = Brief(call)
    /\ UNCHANGED <<y_true, y_pred, threshold, phase, task_type, y_pred_binary, metrics, env>>

\* ------------------------------------------------------------------ the calls

\* the steps of a call that may fail in this run: 0 stands for none
FailPoints(steps) == IF env.faults THEN 0..Len(steps) ELSE {0}

SaveReport ==
    /\ phase = "ready"
    /\ \E folder \in env.folders, name \in env.names,
            failAt \in FailPoints(save_report(task_type)) :
         Finish("save_report", folder, name,
                Run(save_report(task_type), 1, failAt, folder, name, Start), NoDoc)

PrintMetrics ==
    /\ phase = "ready"
    /\ \E failAt \in FailPoints(print_metrics) :
         Finish("print_metrics", "", "", Run(print_metrics, 1, failAt, "", "", Start), NoDoc)

PlotMetrics ==
    /\ phase = "ready"
    /\ \E failAt \in FailPoints(plot_metrics(task_type)) :
         Finish("plot_metrics", "", "",
                Run(plot_metrics(task_type), 1, failAt, "", "", Start), NoDoc)

PrintReport ==
    /\ phase = "ready"
    /\ \E failAt \in FailPoints(print_report(task_type)) :
         Finish("print_report", "", "",
                Run(print_report(task_type), 1, failAt, "", "", Start), NoDoc)

\* a direct call of _generate_html_report(folder, add_css)
GenerateHtmlReport ==
    /\ phase = "ready"
    /\ \E folder \in env.folders, add_css \in BOOLEAN :
         LET st == Run(<<Step("render", IF add_css THEN "css" ELSE "plain")>>,
                       1, 0, folder, "", Start)
         IN  Finish("_generate_html_report", folder, "", st, st.doc)

\* ------------------------------------------------------------------ specifications

\* the inputs of InitMetrics: every y_true over Labels and y_pred over Scores of
\* one length up to MaxLen, every threshold, and the vectors of the tests
SeqsOf(S, n) == [1..n -> S]

MetricsInputs ==
    UNION {{<<yt, yp, th>> :
                yt \in SeqsOf(Labels, n), yp \in SeqsOf(Scores, n), th \in Thresholds} :
           n \in 1..MaxLen}
        \cup {<<TestYTrue, TestYPred, TestThreshold>>}

\* the inputs of Init: a classification over the labels 0 and 1, a regression,
\* and a y_true of one class, on which the constructor raises
ReportInputs ==
    {<<(<<0, 1>>), (<<5, 8>>), 5>>,
     <<(<<0, 1, 2>>), (<<5, 8, 8>>), 5>>,
     <<(<<0, 0>>), (<<5, 8>>), 5>>}

\* the directory tree before the first call
Tree(cwdPlots, outDir) ==
    [cwd |-> [exists |-> TRUE, files |-> ("keep.txt" :> Other), plots |-> cwdPlots],
     out |-> outDir]

StrayPlots == [exists |-> TRUE, files |-> {"stray.png", "notes.txt"}]
OldOut == [exists |-> TRUE, files |-> ("old.txt" :> Other),
           plots |-> [exists |-> TRUE, files |-> {"notes.txt"}]]

Trees == {Tree(p, o) : p \in {NoPlots, StrayPlots}, o \in {NoDir, OldOut}}

Env(faults, folders, names) == [faults |-> faults, folders |-> folders, names |-> names]

InitWith(inputs, trees, e) ==
    /\ \E in \in inputs :
         /\ y_true = in[1]
         /\ y_pred = in[2]
         /\ threshold = in[3]
    /\ fs \in trees
    /\ phase = "new"
    /\ task_type = "none"
    /\ y_pred_binary = << >>
    /\ metrics = << >>
    /\ target_info = << >>
    /\ cwdGone = FALSE
    /\ call = NoCall
    /\ prev = Brief(NoCall)
    /\ env = e

\* every folder and name, on a platform whose calls fail only for the reasons the
\* modelled file system gives
Init == InitWith(ReportInputs, Trees, Env(FALSE, Folders, Names))

Next ==
    \/ Construct
    \/ PrintMetrics
    \/ PlotMetrics
    \/ PrintReport
    \/ SaveReport
    \/ GenerateHtmlReport

Spec == Init /\ [][Next]_vars

\* the constructor over every input up to MaxLen
InitMetrics == InitWith(MetricsInputs, {Tree(NoPlots, NoDir)}, Env(FALSE, {"out"}, {"a"}))

SpecMetrics == InitMetrics /\ [][Next]_vars

\* a platform on which any call a method makes may fail
InitFaults == InitWith(ReportInputs, {Tree(StrayPlots, OldOut)}, Env(TRUE, {"out"}, {"a"}))

SpecFaults == InitFaults /\ [][Next]_vars

\* ------------------------------------------------------------------ properties

Distinct(a) == Cardinality({a[i] : i \in DOMAIN a})

ClassificationKeys ==
    {"AUC", "Log Loss", "Average_Precision", "Accuracy", "Precision", "Recall",
     "F1 Score", "MCC", "TN", "FP", "FN", "TP"}

RegressionKeys ==
    {"Mean Squared Error", "Mean Squared Log Error", "Mean Absolute Error", "R^2",
     "Explained Variance Score", "Max Error", "Mean Absolute Percentage Error"}

\* C1: once line 63 of the constructor has run, the task type is "classification"
\* when y_true has at most 2 distinct values (one value included) and "regression"
\* when it has more, whatever y_pred and the threshold are.
C1_TaskTypeByCardinality ==
    phase # "new" =>
        /\ Distinct(y_true) <= 2 => task_type = "classification"
        /\ Distinct(y_true) > 2 => task_type = "regression"

\* C1 witness: a y_true of three samples and a single value has been through
\* line 63 and is typed classification.
C1_Witness ==
    /\ phase # "new"
    /\ Distinct(y_true) = 1
    /\ task_type = "classification"
    /\ Len(y_true) = 3

\* C2: the keys of the metrics of a constructed object are the 12 classification
\* keys or the 7 regression keys, by the task type alone, in every state later
\* calls of print_metrics, plot_metrics, print_report and save_report lead to.
C2_MetricsKeys ==
    phase = "ready" =>
        /\ task_type \in {"classification", "regression"}
        /\ task_type = "classification" =>
              DOMAIN metrics = ClassificationKeys /\ Cardinality(DOMAIN metrics) = 12
        /\ task_type = "regression" =>
              DOMAIN metrics = RegressionKeys /\ Cardinality(DOMAIN metrics) = 7

\* C2 witness: a regression object after a save_report that returned.
C2_Witness ==
    /\ phase = "ready"
    /\ task_type = "regression"
    /\ call.op = "save_report"
    /\ call.raised = "none"
    /\ DOMAIN metrics = RegressionKeys

\* C3: for a constructed classification object over N samples, whatever the
\* threshold, TN + FP + FN + TP = N.
C3_ConfusionSum ==
    (phase = "ready" /\ task_type = "classification") =>
        metrics["TN"].v + metrics["FP"].v + metrics["FN"].v + metrics["TP"].v = Len(y_true)

\* C3 witness: a constructed classification object with a non-zero count in more
\* than one cell.
C3_Witness ==
    /\ phase = "ready"
    /\ task_type = "classification"
    /\ Len(y_true) = 3
    /\ metrics["TP"].v = 1
    /\ metrics["FN"].v = 1
    /\ metrics["TN"].v = 1

\* the four confusion counts stored in metrics
CountsAre(tn, fp, fn, tp) ==
    /\ metrics["TN"] = PyInt(tn)
    /\ metrics["FP"] = PyInt(fp)
    /\ metrics["FN"] = PyInt(fn)
    /\ metrics["TP"] = PyInt(tp)

PredictedPositive(i) == y_pred[i] > threshold

IsTestVector == y_true = TestYTrue /\ y_pred = TestYPred /\ threshold = TestThreshold

C4_Statement ==
    /\ \A i \in DOMAIN y_pred : (y_pred_binary[i] = 1) <=> PredictedPositive(i)
    /\ \A i \in DOMAIN y_pred : y_pred_binary[i] \in {0, 1}
    /\ CountsAre(
         Cardinality({i \in DOMAIN y_true : y_true[i] = 0 /\ ~PredictedPositive(i)}),
         Cardinality({i \in DOMAIN y_true : y_true[i] = 0 /\ PredictedPositive(i)}),
         Cardinality({i \in DOMAIN y_true : y_true[i] = 1 /\ ~PredictedPositive(i)}),
         Cardinality({i \in DOMAIN y_true : y_true[i] = 1 /\ PredictedPositive(i)}))
    /\ IsTestVector => CountsAre(5, 2, 1, 5)

\* C4 as stated: in every constructed classification object a sample is predicted
\* positive exactly when y_pred[i] > threshold, and TN, FP, FN, TP count the samples
\* with (y_true, predicted) = (0,0), (0,1), (1,0), (1,1); 5, 2, 1, 5 on the test vector.
C4_Original ==
    (phase = "ready" /\ task_type = "classification") => C4_Statement

\* C4 amended: the same, for the objects whose y_true holds the labels 0 and 1.
C4_ConfusionCounts ==
    (phase = "ready" /\ task_type = "classification" /\ unique(y_true) = {0, 1}) =>
        C4_Statement

\* C4 witness: the object constructed from the test vector, with the counts 5, 2, 1, 5.
C4_Witness ==
    /\ phase = "ready"
    /\ IsTestVector
    /\ CountsAre(5, 2, 1, 5)

\* ---- save_report and the report

SaveOk(c) == c.op = "save_report" /\ c.raised = "none"

ReportFiles(name) == {name \o ".html", name \o ".md"}

ClassificationPngs ==
    {"class_distribution.png", "confusion_matrix.png", "precision_recall_curve.png",
     "roc_curve.png", "ks_statistic.png", "calibration_curve.png", "cumulative_gain.png",
     "lift_curve.png"}

RegressionPngs == {"residual_plot.png", "predicted_vs_actual.png"}

PngsOf(task) == IF task = "classification" THEN ClassificationPngs ELSE RegressionPngs

\* the files of a directory, those of its plots sub-directory by their path
Present(d) == DOMAIN d.files \cup {"plots/" \o f : f \in d.plots.files}

\* the files a save_report that returned has written
Written(name) == ReportFiles(name) \cup {"plots/" \o f : f \in PngsOf(task_type)}

\* the last two calls are save_report calls on the same folder, and both returned
TwoSaves == SaveOk(call) /\ prev.op = "save_report" /\ prev.ok /\ prev.folder = call.folder

\* the files written by the first of the two only, that are still in the folder
Residue == (Written(prev.name) \ Written(call.name)) \cap Present(fs[Resolve(call.folder)])

\* C5 as stated: after two consecutive save_report calls on one folder that both
\* returned, whatever the folder ('.' included) and the two names, no file written
\* only by the first call is in the folder.
C5_Original == TwoSaves => Residue = {}

\* C5 amended: no such file when the folder is not '.' or the names are equal; with
\* folder '.' and two different names the .html and .md of the first call remain,
\* and only they.
C5_NoResidue ==
    TwoSaves =>
        Residue = IF call.folder = "." /\ prev.name # call.name
                  THEN ReportFiles(prev.name) ELSE {}

\* C5 witness: two saves in a row on '.' under different names, both returned, and
\* the two report files of the first are still there.
C5_Witness ==
    /\ TwoSaves
    /\ call.folder = "."
    /\ prev.name # call.name
    /\ Residue = ReportFiles(prev.name)

\* C6: after a save_report(folder, name) that returned, folder other than '.', the
\* folder holds name.html, name.md and plots, and nothing else, and plots holds the
\* 8 classification PNGs or the 2 regression PNGs, and nothing else.
C6_FolderContents ==
    (SaveOk(call) /\ call.folder # ".") =>
        LET d == fs[Resolve(call.folder)]
        IN  /\ d.exists
            /\ DOMAIN d.files = ReportFiles(call.name)
            /\ d.plots.exists
            /\ d.plots.files = PngsOf(task_type)
            /\ Cardinality(d.plots.files) = IF task_type = "classification" THEN 8 ELSE 2
            /\ Resolve(call.folder) = "cwd" => ~fs.out.exists

\* C6 witness: a classification report saved in "out" right after another one
\* saved there under the other name.
C6_Witness ==
    /\ TwoSaves
    /\ call.folder = "out"
    /\ prev.name # call.name
    /\ task_type = "classification"

\* C7: from construction on, no call changes task_type, threshold, y_true, y_pred
\* or the metrics mapping.
C7_ObjectUnchanged ==
    [][phase = "ready" =>
         /\ phase' = "ready"
         /\ task_type' = task_type
         /\ threshold' = threshold
         /\ y_true' = y_true
         /\ y_pred' = y_pred
         /\ metrics' = metrics]_vars

\* C7 witness: a print_metrics after a save_report that returned.
C7_Witness ==
    /\ phase = "ready"
    /\ call.op = "print_metrics"
    /\ prev.op = "save_report"
    /\ prev.ok
    /\ DOMAIN target_info # {}

\* the plots sub-directory the last call looked at
PlotsSeen == fs[Resolve(call.folder)].plots
PlotsThere == (call.folder = CwdAbs \/ ~cwdGone) /\ fs[Resolve(call.folder)].exists
                 /\ PlotsSeen.exists
NoPng == \A f \in PlotsSeen.files : ~endswith(f, ".png")

\* the report with its two tables and no image
EmptyPlotsReport ==
    /\ call.raised = "none"
    /\ call.result.fmt = "html"
    /\ DOMAIN call.result.info = DOMAIN target_info
    /\ DOMAIN call.result.metrics = DOMAIN metrics
    /\ call.result.images = {}

\* C8 as stated: rendering the report for a folder whose plots sub-directory does
\* not exist or holds no PNG returns the report with an empty plots section.
C8_Original ==
    (call.op = "_generate_html_report" /\ (~PlotsThere \/ NoPng)) => EmptyPlotsReport

\* C8 amended: it does so when the sub-directory exists and holds no PNG; when the
\* sub-directory does not exist the call raises the FileNotFoundError of os.listdir.
C8_EmptyPlots ==
    call.op = "_generate_html_report" =>
        /\ (PlotsThere /\ NoPng) => EmptyPlotsReport
        /\ ~PlotsThere => (call.raised = "FileNotFoundError" /\ call.result = NoDoc)

\* C8 witness: the report rendered for a folder whose plots sub-directory holds a
\* file that is no PNG, and no PNG.
C8_Witness ==
    /\ call.op = "_generate_html_report"
    /\ PlotsThere
    /\ NoPng
    /\ PlotsSeen.files # {}
    /\ call.raised = "none"

\* ---- failures

\* the calls a method makes, in order
Plan(c) ==
    CASE c.op = "save_report" -> save_report(task_type)
      [] c.op = "print_metrics" -> print_metrics
      [] c.op = "plot_metrics" -> plot_metrics(task_type)
      [] c.op = "print_report" -> print_report(task_type)
      [] OTHER -> << >>

Failed(c) ==
    /\ c.op \in {"save_report", "print_metrics", "plot_metrics", "print_report"}
    /\ c.raised # "none"

\* where a step stands in a plan, 0 when it is not in it
Position(plan, s) ==
    IF \E i \in 1..Len(plan) : plan[i] = s
    THEN CHOOSE i \in 1..Len(plan) : plan[i] = s
    ELSE 0

\* C9: when a step of a plot, print or save_report call fails, the caller gets the
\* error of that step as it was raised, no step runs twice, no step runs after the
\* failing one (what is on disk and in target_info comes from the steps before it),
\* and task_type and metrics are what they were before the call.
C9_FailureAborts ==
    [][Failed(call') =>
         \A t \in {call'.trace}, plan \in {Plan(call')} :
         \A pos \in {[i \in 1..Len(t) |-> Position(plan, t[i])]},
            done \in {{t[i] : i \in 1..(Len(t) - 1)}},
            before \in {fs[Resolve(call'.folder)]},
            after \in {fs'[Resolve(call'.folder)]} :
             /\ Len(t) >= 1
             /\ task_type' = task_type
             /\ metrics' = metrics
             /\ call'.raised \in {ErrorOf(t[Len(t)]), "FileNotFoundError", "FileExistsError"}
             /\ \A i \in 1..Len(t) : pos[i] # 0
             /\ \A i \in 1..(Len(t) - 1) : pos[i] < pos[i + 1]
             /\ target_info' # target_info => Step("target_info", "") \in done
             /\ call'.op = "save_report" =>
                  /\ \A i \in DOMAIN PlotsOf(task_type) :
                       \A p \in {PlotsOf(task_type)[i]} :
                          (p \o ".png") \in after.plots.files =>
                             \/ Step("savefig", p) \in done
                             \/ /\ Step("rmtree_folder", "") \notin done
                                /\ Step("rmtree_plots", "") \notin done
                                /\ (p \o ".png") \in before.plots.files
                  /\ \A ext \in {".html", ".md"} :
                       (call'.name \o ext) \in DOMAIN after.files =>
                             \/ Step("write", ext) \in done
                             \/ /\ Step("rmtree_folder", "") \notin done
                                /\ (call'.name \o ext) \in DOMAIN before.files
             /\ call'.op # "save_report" => fs' = fs]_vars

\* C9 witness: a save_report that failed writing its fourth plot: three PNGs are
\* on disk, no report file is.
C9_Witness ==
    /\ Failed(call)
    /\ call.op = "save_report"
    /\ call.raised = ErrorOf(Step("savefig", "roc_curve"))
    /\ task_type = "classification"
    /\ fs[Resolve(call.folder)].plots.files =
          {"class_distribution.png", "confusion_matrix.png", "precision_recall_curve.png"}
    /\ DOMAIN fs[Resolve(call.folder)].files = {}
    /\ DOMAIN metrics = ClassificationKeys

\* C10 as stated: a save_report that returns has destroyed and recreated its folder
\* if and only if the folder is not the current directory: when the path names the
\* current directory, however it is written, every entry of it other than plots
\* and the two report files is as it was; for any other folder nothing of its
\* prior contents is left.
C10_DestroysUnlessCurrentDir ==
    [][SaveOk(call') =>
         IF Resolve(call'.folder) = "cwd"
         THEN /\ \A f \in DOMAIN fs.cwd.files \ ReportFiles(call'.name) :
                    f \in DOMAIN fs'.cwd.files /\ fs'.cwd.files[f] = fs.cwd.files[f]
              /\ fs'.out = fs.out
         ELSE /\ DOMAIN fs'.out.files = ReportFiles(call'.name)
              /\ fs'.out.plots.files = PngsOf(task_type)]_vars

\* ---- target_info

ClassificationInfoKeys ==
    {"Count of samples", "Count True class", "Count False class", "Class balance %"}

RegressionInfoKeys ==
    {"Count of samples", "Mean of target", "Std of target", "Min of target",
     "Max of target"}

InfoKeysOf(task) ==
    IF task = "classification" THEN ClassificationInfoKeys ELSE RegressionInfoKeys

\* the call went through its __target_info step and on to a later one
PastTargetInfo(c) ==
    /\ c.op = "save_report"
    /\ \E i \in 1..(Len(c.trace) - 1) : c.trace[i] = Step("target_info", "")

\* C11: target_info is the empty mapping before the constructor and when it
\* returns; print_metrics, plot_metrics, print_report and a rendering of the report
\* leave it as it is, so it is empty until the first save_report; only a save_report
\* that has gone through its __target_info step changes it, and it is then the
\* mapping with exactly the 4 classification keys or the 5 regression keys of the
\* task type, whether the call returns or fails at a later step.
C11_TargetInfoLazy ==
    [][\A c \in {call'} : \A past \in {PastTargetInfo(c)} :
         /\ phase = "new" => target_info = << >>
         /\ c.op = "__init__" => target_info' = << >>
         /\ c.op \in {"print_metrics", "plot_metrics", "print_report",
                      "_generate_html_report"} => target_info' = target_info
         /\ ~past => target_info' = target_info
         /\ past => /\ DOMAIN target_info' = InfoKeysOf(task_type)
                    /\ Cardinality(DOMAIN target_info') =
                          IF task_type = "classification" THEN 4 ELSE 5
                    /\ target_info'["Count of samples"] = PyInt(Len(y_true))
         /\ SaveOk(c) => past]_vars

\* C11 witness: a save_report, made right after a call that was no save_report,
\* has failed writing its first plot: the regression target_info of 5 keys is set
\* and no report file is written.
C11_Witness ==
    /\ Failed(call)
    /\ call.op = "save_report"
    /\ prev.op = "other"
    /\ task_type = "regression"
    /\ call.raised = ErrorOf(Step("savefig", "residual_plot"))
    /\ DOMAIN target_info = RegressionInfoKeys
    /\ DOMAIN fs[Resolve(call.folder)].files = {}

\* ---- the plots a saved report references

\* the <img> tags of the HTML report and the image links of the markdown report
\* that reference the PNGs of a task's plot list
HtmlRefs(task) == {<<"img", "./plots/" \o f>> : f \in PngsOf(task)}
MdRefs(task) == {<<"![]", "./plots/" \o f>> : f \in PngsOf(task)}

\* C12: in a save_report call that returns, every plot of the task type is written
\* to the plots sub-directory before the first rendering of the HTML, and a plots
\* sub-directory that was there before the call is removed (with the folder or on
\* its own) and made anew before the first plot is written; the .html and the .md
\* files the call wrote reference every PNG of the task's plot list and no other
\* PNG, whatever the sub-directory held before the call.
C12_ReportReferencesPlots ==
    [][SaveOk(call') =>
         \A t \in {call'.trace},
            before \in {fs[Resolve(call'.folder)]},
            after \in {fs'[Resolve(call'.folder)]} :
         \A rendered \in {Position(t, Step("render", "css"))},
            made \in {Position(t, Step("makedirs_plots", ""))},
            cleared \in {{Position(t, Step("rmtree_folder", "")),
                          Position(t, Step("rmtree_plots", ""))} \ {0}},
            saved \in {[i \in DOMAIN PlotsOf(task_type) |->
                          Position(t, Step("savefig", PlotsOf(task_type)[i]))]} :
             /\ rendered # 0
             /\ made # 0
             /\ \A i \in DOMAIN saved : made < saved[i] /\ saved[i] < rendered
             /\ \A i \in DOMAIN t : t[i].k = "render" => i >= rendered
             /\ (before.exists /\ before.plots.exists) =>
                   (cleared # {} /\ \A i \in cleared : i < made)
             /\ after.plots.files = PngsOf(task_type)
             /\ after.files[call'.name \o ".html"].fmt = "html"
             /\ after.files[call'.name \o ".html"].images = HtmlRefs(task_type)
             /\ after.files[call'.name \o ".md"].fmt = "md"
             /\ after.files[call'.name \o ".md"].images = MdRefs(task_type)]_vars

\* C12 witness: a classification report saved in '.', beside a file the call did
\* not write: both report files reference the 8 PNGs of the plot list, and
\* stray.png is neither referenced nor in plots.
C12_Witness ==
    /\ SaveOk(call)
    /\ call.folder = "."
    /\ task_type = "classification"
    /\ "keep.txt" \in DOMAIN fs.cwd.files
    /\ "stray.png" \notin fs.cwd.plots.files
    /\ fs.cwd.files[call.name \o ".html"].images = HtmlRefs("classification")
    /\ fs.cwd.files[call.name \o ".md"].images = MdRefs("classification")
    /\ Cardinality(fs.cwd.files[call.name \o ".md"].images) = 8

====
